---- MODULE Spec2Model ----
(***************************************************************************)
(* Model of the Waveshare 2.13" (B) V4 e-paper driver, class               *)
(* EPD_2in13_B_V4 of epd_2in13_b.py.                                       *)
(*                                                                         *)
(* The driver is single-threaded and synchronous.  A public method is a    *)
(* straight-line list of primitive calls (digital_write on the reset line, *)
(* delay_ms, send_command, send_data), the busy-poll loop of ReadBusy and  *)
(* the RAM-streaming loops of Clear and display.  Each primitive call is   *)
(* one step of the model; the busy line is an input whose level is chosen  *)
(* by the controller each time the driver samples it.                      *)
(*                                                                         *)
(* SpecBus refines a send into the lines of send_command / send_data and   *)
(* of spi_writebyte, on a bus shared with another user and with bus calls  *)
(* that may raise.  SpecRam adds the controller's RAM address counter.     *)
(***************************************************************************)
EXTENDS Integers, Sequences, FiniteSets, TLC

\* Panel constants (lines 57-58).
EPD_WIDTH == 122
EPD_HEIGHT == 250

\* Number of asserted busy samples of one ReadBusy call that the event log
\* records; a call that samples more is still executed, with the log of the
\* running operation marked truncated.
MaxPolls == 2

\* A width that is not rounded up to whole bytes.
width_unrounded == EPD_WIDTH

\* Geometry computed by __init__ (lines 76-81).
width == IF EPD_WIDTH % 8 = 0 THEN EPD_WIDTH ELSE (EPD_WIDTH \div 8) * 8 + 8
height == EPD_HEIGHT
\* A row length taken from the panel width instead of the padded width.
byte_stride_unpadded == EPD_WIDTH \div 8

\* int(self.width / 8), the row length in bytes used by Clear and display.
byte_stride == width \div 8
\* Length of each plane buffer (lines 83-84).
BufLen == (height * width) \div 8

\* Python's >> and & on the non-negative integers the driver handles.
Shr(x, n) == x \div (2 ^ n)
And255(x) == x % 256

(***************************************************************************)
(* Plane buffers.  A buffer is a bytearray of BufLen bytes; the model      *)
(* holds it as the identifier of its content, and ByteAt gives the byte at *)
(* an index.  Image 0 is the zero-filled buffer the constructor allocates; *)
(* image 1 is what the frame buffer library leaves after drawing a         *)
(* vertical line through byte column 3 and a horizontal line on row 5;     *)
(* image 2 after filling the rectangle of rows 100-119, byte columns 4-7.  *)
(* A picture is the pair of images the application draws into the black    *)
(* and the red plane.                                                      *)
(***************************************************************************)
Images == {0, 1, 2}
ByteAt(img, n) ==
  IF img = 0 THEN 0
  ELSE IF img = 1
  THEN (IF n \div 16 = 5 THEN 255 ELSE IF n % 16 = 3 THEN 16 ELSE 0)
  ELSE (IF n \div 16 \in 100..119 /\ n % 16 \in 4..7 THEN 255 ELSE 0)
Pictures == {<<0, 0>>, <<1, 2>>}

\* Arguments the callers of the model pass.
FillPairs == {<<255, 255>>, <<0, 255>>, <<165, 0>>}
XSamples == {0, 7, 8, 121, 127}
YSamples == {0, 1, 249}

VARIABLES
  rst, dc, cs,                \* output pins (lines 65-70), TRUE = high
  busy,                       \* level of the busy input at its last sample
  framebuffer_black_array,    \* content of the black plane buffer
  framebuffer_red_array,      \* content of the red plane buffer
  op, args,                   \* the public method running or last run, its arguments
  running,                    \* TRUE while that method has not returned
  ip,                         \* index of its next primitive call
  rb, polls,                  \* position inside ReadBusy, asserted samples so far
  i, j,                       \* loop counters of Clear and display
  log, truncated,             \* events of the running method, run-length encoded
  initDone, configured,       \* an init() has completed; and no sleep/reset since
  prev,                       \* record of the previous display() call
  lock,                       \* holder of the SPI bus lock
  pc,                         \* line reached inside send_command / send_data
  tx,                         \* pin, lock and bus events of the current send
  ram                         \* addressing state of the controller RAM

vars == <<rst, dc, cs, busy, framebuffer_black_array, framebuffer_red_array,
          op, args, running, ip, rb, polls, i, j, log, truncated,
          initDone, configured, prev, lock, pc, tx, ram>>

(***************************************************************************)
(* Event log.  An event is <<kind, value>>: a command or data byte on the  *)
(* bus, a write of the reset line, a delay in ms, a sample of the busy     *)
(* line.  The log holds runs <<kind, value, count>> of equal consecutive   *)
(* events, so two logs are equal exactly when the event sequences are.     *)
(***************************************************************************)
Lvl(b) == IF b THEN 1 ELSE 0

Emit(l, ev) ==
  IF l # <<>> /\ l[Len(l)][1] = ev[1] /\ l[Len(l)][2] = ev[2]
  THEN [l EXCEPT ![Len(l)] = <<ev[1], ev[2], @[3] + 1>>]
  ELSE Append(l, <<ev[1], ev[2], 1>>)

Record(ev) == IF truncated THEN log ELSE Emit(log, ev)

(***************************************************************************)
(* Method bodies as lists of primitive calls.                              *)
(***************************************************************************)
\* digital_write(self.rst, value), lines 141-142
digital_write_rst(value) == << <<"rst", Lvl(value)>> >>
\* lines 151-152
delay_ms(delaytime) == << <<"delay", delaytime>> >>
\* lines 135-139
send_command(command) == << <<"cmd", command>> >>
\* lines 174-178
send_data(data) == << <<"data", data>> >>
\* lines 165-172, executed by the ReadBusy_* steps below
ReadBusy == << <<"ReadBusy", 0>> >>
\* lines 148-149
module_exit == digital_write_rst(FALSE)

\* A reset that does not release the line after the low pulse.
reset_held_low ==
  digital_write_rst(TRUE) \o delay_ms(50) \o
  digital_write_rst(FALSE) \o delay_ms(2) \o
  delay_ms(50)

\* lines 127-133
reset ==
  digital_write_rst(TRUE) \o delay_ms(50) \o
  digital_write_rst(FALSE) \o delay_ms(2) \o
  digital_write_rst(TRUE) \o delay_ms(50)

\* SetWindows sending the pixel X coordinates instead of the byte columns.
SetWindows_noshift(Xstart, Ystart, Xend, Yend) ==
  send_command(68) \o
  send_data(And255(Xstart)) \o
  send_data(And255(Xend)) \o
  send_command(69) \o
  send_data(And255(Ystart)) \o
  send_data(And255(Shr(Ystart, 8))) \o
  send_data(And255(Yend)) \o
  send_data(And255(Shr(Yend, 8)))

\* lines 196-205
SetWindows(Xstart, Ystart, Xend, Yend) ==
  send_command(68) \o                         \* 0x44
  send_data(And255(Shr(Xstart, 3))) \o
  send_data(And255(Shr(Xend, 3))) \o
  send_command(69) \o                         \* 0x45
  send_data(And255(Ystart)) \o
  send_data(And255(Shr(Ystart, 8))) \o
  send_data(And255(Yend)) \o
  send_data(And255(Shr(Yend, 8)))

\* lines 207-213
SetCursor(Xstart, Ystart) ==
  send_command(78) \o                         \* 0x4E
  send_data(And255(Xstart)) \o
  send_command(79) \o                         \* 0x4F
  send_data(And255(Ystart)) \o
  send_data(And255(Shr(Ystart, 8)))

\* TurnOnDisplay without the wait for the update to end.
TurnOnDisplay_no_wait == send_command(32)

\* lines 192-194
TurnOnDisplay == send_command(32) \o ReadBusy  \* 0x20

\* init with the busy wait ahead of the hardware reset.
init_poll_before_reset ==
  ReadBusy \o
  reset \o
  send_command(18) \o
  ReadBusy \o
  send_command(1) \o
  send_data(249) \o send_data(0) \o send_data(0) \o
  send_command(17) \o
  send_data(3) \o
  SetWindows(0, 0, width - 1, height - 1) \o
  SetCursor(0, 0) \o
  send_command(60) \o
  send_data(5) \o
  send_command(24) \o
  send_data(128) \o
  send_command(33) \o
  send_data(128) \o send_data(128) \o
  ReadBusy

\* init with the window end one past the panel (width, height).
init_window_off_by_one ==
  reset \o
  ReadBusy \o
  send_command(18) \o
  ReadBusy \o
  send_command(1) \o
  send_data(249) \o send_data(0) \o send_data(0) \o
  send_command(17) \o
  send_data(3) \o
  SetWindows(0, 0, width, height) \o
  SetCursor(0, 0) \o
  send_command(60) \o
  send_data(5) \o
  send_command(24) \o
  send_data(128) \o
  send_command(33) \o
  send_data(128) \o send_data(128) \o
  ReadBusy

\* lines 93-124
init ==
  reset \o
  ReadBusy \o
  send_command(18) \o                         \* 0x12 SWRESET
  ReadBusy \o
  send_command(1) \o                          \* 0x01 driver output control
  send_data(249) \o send_data(0) \o send_data(0) \o
  send_command(17) \o                         \* 0x11 data entry mode
  send_data(3) \o
  SetWindows(0, 0, width - 1, height - 1) \o
  SetCursor(0, 0) \o
  send_command(60) \o                         \* 0x3C border waveform
  send_data(5) \o
  send_command(24) \o                         \* 0x18 temperature sensor
  send_data(128) \o
  send_command(33) \o                         \* 0x21 display update control
  send_data(128) \o send_data(128) \o
  ReadBusy

\* sleep that leaves the reset line as it is.
sleep_no_exit ==
  send_command(16) \o
  send_data(1) \o
  delay_ms(2000)

\* lines 215-220
sleep ==
  send_command(16) \o                         \* 0x10
  send_data(1) \o
  delay_ms(2000) \o
  module_exit

\* The two nested for loops of lines 182-184 and 186-188.
FillLoop(color) == << <<"fill", color>> >>
\* The two nested for loops of lines 224-226 (plane 0) and 229-231 (plane 1).
StreamLoop(plane) == << <<"stream", plane>> >>

\* Clear with the two fill bytes exchanged.
Clear_swapped(colorblack, colorred) ==
  send_command(36) \o
  FillLoop(colorred) \o
  send_command(38) \o
  FillLoop(colorblack) \o
  TurnOnDisplay

\* lines 180-190
Clear(colorblack, colorred) ==
  send_command(36) \o                         \* 0x24
  FillLoop(colorblack) \o
  send_command(38) \o                         \* 0x26
  FillLoop(colorred) \o
  TurnOnDisplay

\* lines 222-233
display ==
  send_command(36) \o
  StreamLoop(0) \o
  send_command(38) \o
  StreamLoop(1) \o
  TurnOnDisplay

Body(o, a) ==
  CASE o = "init" -> init
    [] o = "reset" -> reset
    [] o = "ReadBusy" -> ReadBusy
    [] o = "Clear" -> Clear(a[1], a[2])
    [] o = "TurnOnDisplay" -> TurnOnDisplay
    [] o = "SetWindows" -> SetWindows(a[1], a[2], a[3], a[4])
    [] o = "SetCursor" -> SetCursor(a[1], a[2])
    [] o = "sleep" -> sleep
    [] o = "display" -> display

Prog == Body(op, args)
AtEnd == running /\ ip = Len(Prog) + 1
At(kind) == running /\ ip <= Len(Prog) /\ Prog[ip][1] = kind
Arg == Prog[ip][2]

\* The controller before the driver has addressed it: no window, the
\* address counter at 0, no command received.
RamPowerOn ==
  [cmd |-> 0, n |-> 0, xs |-> 0, xe |-> 0, ys |-> 0, ye |-> 0, x |-> 0, y |-> 0]

\* A constructor that does not call init().
Init_without_init ==
  /\ rst = FALSE /\ dc = FALSE /\ cs = FALSE
  /\ busy \in BOOLEAN
  /\ framebuffer_black_array = 0
  /\ framebuffer_red_array = 0
  /\ op = "init" /\ args = <<>> /\ running = FALSE /\ ip = 1
  /\ rb = "none" /\ polls = 0
  /\ i = 0 /\ j = 0
  /\ log = <<>> /\ truncated = FALSE
  /\ initDone = FALSE /\ configured = FALSE
  /\ prev = <<>>
  /\ lock = "free" /\ pc = "none" /\ tx = <<>>
  /\ ram = RamPowerOn

(***************************************************************************)
(* Construction (lines 61-91): pins are created as outputs (low), the      *)
(* buffers are zero-filled, and the constructor calls init().              *)
(***************************************************************************)
Init ==
  /\ rst = FALSE /\ dc = FALSE /\ cs = FALSE
  /\ busy \in BOOLEAN
  /\ framebuffer_black_array = 0
  /\ framebuffer_red_array = 0
  /\ op = "init" /\ args = <<>> /\ running = TRUE /\ ip = 1
  /\ rb = "none" /\ polls = 0
  /\ i = 0 /\ j = 0
  /\ log = <<>> /\ truncated = FALSE
  /\ initDone = FALSE /\ configured = FALSE
  /\ prev = <<>>
  /\ lock = "free" /\ pc = "none" /\ tx = <<>>
  /\ ram = RamPowerOn

(***************************************************************************)
(* Primitive steps.                                                        *)
(***************************************************************************)
Ghosts == <<initDone, configured, prev>>
Buffers == <<framebuffer_black_array, framebuffer_red_array>>
Frame == <<op, args, running>>
\* The bus lock and the position inside a send: a step that is a whole
\* primitive call leaves them as they are between two sends.
Wire == <<lock, pc, tx>>

\* digital_write(self.rst, value)
do_digital_write ==
  /\ At("rst")
  /\ rst' = (Arg = 1)
  /\ log' = Record(<<"rst", Arg>>)
  /\ ip' = ip + 1
  /\ UNCHANGED <<dc, cs, busy, Buffers, Frame, rb, polls, i, j, truncated, Ghosts,
                 Wire, ram>>

\* delay_ms(delaytime)
do_delay_ms ==
  /\ At("delay")
  /\ log' = Record(<<"delay", Arg>>)
  /\ ip' = ip + 1
  /\ UNCHANGED <<rst, dc, cs, busy, Buffers, Frame, rb, polls, i, j, truncated, Ghosts,
                 Wire, ram>>

\* send_command(command): dc low, cs low, the byte, cs high
do_send_command ==
  /\ At("cmd")
  /\ dc' = FALSE
  /\ cs' = TRUE
  /\ log' = Record(<<"cmd", Arg>>)
  /\ ip' = ip + 1
  /\ UNCHANGED <<rst, busy, Buffers, Frame, rb, polls, i, j, truncated, Ghosts>>

\* send_data(data): dc high, cs low, the byte, cs high
do_send_data ==
  /\ At("data")
  /\ dc' = TRUE
  /\ cs' = TRUE
  /\ log' = Record(<<"data", Arg>>)
  /\ ip' = ip + 1
  /\ UNCHANGED <<rst, busy, Buffers, Frame, rb, polls, i, j, truncated, Ghosts>>

\* ReadBusy, line 167: the first status command
ReadBusy_enter ==
  /\ At("ReadBusy") /\ rb = "none"
  /\ dc' = FALSE /\ cs' = TRUE
  /\ log' = Record(<<"cmd", 113>>)            \* 0x71
  /\ rb' = "poll"
  /\ polls' = 0
  /\ UNCHANGED <<rst, busy, Buffers, Frame, ip, i, j, truncated, Ghosts>>

\* A loop test that gives up after MaxPolls asserted samples.
ReadBusy_poll_timeout ==
  /\ At("ReadBusy") /\ rb = "poll"
  /\ \E level \in BOOLEAN :
       /\ busy' = level
       /\ IF level /\ polls < MaxPolls
          THEN /\ rb' = "resend"
               /\ ip' = ip
               /\ polls' = polls + 1
               /\ log' = Record(<<"busy", 1>>)
          ELSE /\ rb' = "none"
               /\ ip' = ip + 1
               /\ polls' = polls
               /\ log' = Record(<<"busy", Lvl(level)>>)
  /\ UNCHANGED <<rst, dc, cs, Buffers, Frame, i, j, truncated, Ghosts,
                 Wire, ram>>

\* ReadBusy, line 169: the loop test samples the busy line
ReadBusy_poll ==
  /\ At("ReadBusy") /\ rb = "poll"
  /\ \E level \in BOOLEAN :
       /\ busy' = level
       /\ IF level
          THEN /\ rb' = "resend"
               /\ ip' = ip
               /\ IF polls < MaxPolls
                  THEN /\ polls' = polls + 1
                       /\ truncated' = truncated
                       /\ log' = Record(<<"busy", 1>>)
                  ELSE /\ polls' = polls
                       /\ truncated' = TRUE
                       /\ log' = log
          ELSE /\ rb' = "none"
               /\ ip' = ip + 1
               /\ polls' = polls
               /\ truncated' = truncated
               /\ log' = Record(<<"busy", 0>>)
  /\ UNCHANGED <<rst, dc, cs, Buffers, Frame, i, j, Ghosts,
                 Wire, ram>>

\* A loop body that waits without sending the status command again.
ReadBusy_resend_passive ==
  /\ At("ReadBusy") /\ rb = "resend"
  /\ rb' = "wait"
  /\ UNCHANGED <<rst, dc, cs, busy, Buffers, Frame, ip, polls, i, j, log,
                 truncated, Ghosts>>

\* ReadBusy, line 170: the status command is sent again
ReadBusy_resend ==
  /\ At("ReadBusy") /\ rb = "resend"
  /\ dc' = FALSE /\ cs' = TRUE
  /\ log' = Record(<<"cmd", 113>>)
  /\ rb' = "wait"
  /\ UNCHANGED <<rst, busy, Buffers, Frame, ip, polls, i, j, truncated, Ghosts>>

\* ReadBusy, line 171
ReadBusy_wait ==
  /\ At("ReadBusy") /\ rb = "wait"
  /\ log' = Record(<<"delay", 10>>)
  /\ rb' = "poll"
  /\ UNCHANGED <<rst, dc, cs, busy, Buffers, Frame, ip, polls, i, j, truncated, Ghosts,
                 Wire, ram>>

\* A column-major index.
BufIndex_column_major(ii, jj) == jj + ii * height

\* The index the inner loop body of display reads (lines 226, 231).
BufIndex(ii, jj) == ii + jj * byte_stride

\* The byte the loop body sends in iteration (jj, ii).
LoopByte(instr, ii, jj) ==
  IF instr[1] = "fill" THEN instr[2]
  ELSE IF instr[2] = 0 THEN ByteAt(framebuffer_black_array, BufIndex(ii, jj))
  ELSE ByteAt(framebuffer_red_array, BufIndex(ii, jj))

\* A Clear that blanks the plane buffers of the host as well.
loop_send_data_blanking ==
  /\ At("fill") \/ At("stream")
  /\ dc' = TRUE
  /\ cs' = TRUE
  /\ log' = Record(<<"data", LoopByte(Prog[ip], i, j)>>)
  /\ IF i + 1 < byte_stride
     THEN i' = i + 1 /\ j' = j /\ ip' = ip
     ELSE IF j + 1 < height
     THEN i' = 0 /\ j' = j + 1 /\ ip' = ip
     ELSE i' = 0 /\ j' = 0 /\ ip' = ip + 1
  /\ IF At("fill")
     THEN framebuffer_black_array' = 0 /\ framebuffer_red_array' = 0
     ELSE UNCHANGED Buffers
  /\ UNCHANGED <<rst, busy, Frame, rb, polls, truncated, Ghosts>>

\* Loops whose row counter is not started again at 0.
loop_send_data_stale_row ==
  /\ At("fill") \/ At("stream")
  /\ dc' = TRUE
  /\ cs' = TRUE
  /\ log' = Record(<<"data", LoopByte(Prog[ip], i, j)>>)
  /\ IF i + 1 < byte_stride
     THEN i' = i + 1 /\ j' = j /\ ip' = ip
     ELSE IF j + 1 < height
     THEN i' = 0 /\ j' = j + 1 /\ ip' = ip
     ELSE i' = 0 /\ j' = j /\ ip' = ip + 1
  /\ UNCHANGED <<rst, busy, Buffers, Frame, rb, polls, truncated, Ghosts>>

\* One iteration of the inner loop: send_data of one byte, then the loop
\* counters advance (for i in range(stride) inside for j in range(height)).
loop_send_data ==
  /\ At("fill") \/ At("stream")
  /\ dc' = TRUE
  /\ cs' = TRUE
  /\ log' = Record(<<"data", LoopByte(Prog[ip], i, j)>>)
  /\ IF i + 1 < byte_stride
     THEN i' = i + 1 /\ j' = j /\ ip' = ip
     ELSE IF j + 1 < height
     THEN i' = 0 /\ j' = j + 1 /\ ip' = ip
     ELSE i' = 0 /\ j' = 0 /\ ip' = ip + 1
  /\ UNCHANGED <<rst, busy, Buffers, Frame, rb, polls, truncated, Ghosts>>

\* The method returns to its caller.
Return ==
  /\ AtEnd
  /\ running' = FALSE
  /\ initDone' = (initDone \/ op = "init")
  /\ configured' = (configured \/ op = "init")
  /\ UNCHANGED <<rst, dc, cs, busy, Buffers, op, args, ip, rb, polls, i, j,
                 log, truncated, prev, Wire, ram>>

\* The same return, observed: the events of a display() call are kept, with
\* the buffers it sent, until the buffers are drawn into again.
Return_observed ==
  /\ AtEnd
  /\ running' = FALSE
  /\ initDone' = (initDone \/ op = "init")
  /\ configured' = (configured \/ op = "init")
  /\ prev' = IF op = "display"
             THEN <<log, Lvl(truncated), framebuffer_black_array,
                    framebuffer_red_array>>
             ELSE prev
  /\ UNCHANGED <<rst, dc, cs, busy, Buffers, op, args, ip, rb, polls, i, j,
                 log, truncated, Wire, ram>>

\* One primitive call of the running method, a send taken as a whole: the
\* bus lock is free before and after it.
Step ==
  \/ do_digital_write
  \/ do_delay_ms
  \/ do_send_command /\ UNCHANGED <<Wire, ram>>
  \/ do_send_data /\ UNCHANGED <<Wire, ram>>
  \/ ReadBusy_enter /\ UNCHANGED <<Wire, ram>>
  \/ ReadBusy_poll
  \/ ReadBusy_resend /\ UNCHANGED <<Wire, ram>>
  \/ ReadBusy_wait
  \/ loop_send_data /\ UNCHANGED <<Wire, ram>>

(***************************************************************************)
(* The bus, one line of send_command / send_data and of spi_writebyte per  *)
(* step.  pc names the line to execute next inside the send in progress:   *)
(*   "none"            no send in progress                                 *)
(*   "cs_low"          line 137 / 176, digital_write(self.cs, False)       *)
(*   "try_lock"        lines 155-156, the loop on spi.try_lock()           *)
(*   "configure"       line 158                                            *)
(*   "select"          line 159, self.cs.value = False                     *)
(*   "write"           line 160                                            *)
(*   "deselect"        line 161, self.cs.value = True                      *)
(*   "finally"         line 163 reached from line 161                      *)
(*   "finally_raised"  line 163 reached by an exception of line 158 / 160  *)
(*   "cs_high"         line 139 / 178, digital_write(self.cs, True)        *)
(*   "raised"          the exception is leaving send_command / send_data   *)
(*   "failed"          the exception has left the constructor              *)
(* The lock is "free", or held by "driver" or by "other", another user of  *)
(* the same SPI bus.  tx lists the events of the send in progress.         *)
(***************************************************************************)
\* The running method is at a call of send_command or send_data.
SendPending ==
  \/ At("cmd") \/ At("data") \/ At("fill") \/ At("stream")
  \/ At("ReadBusy") /\ rb \in {"none", "resend"}

\* That call is a send_command (ReadBusy sends the status command).
BySendCommand == At("cmd") \/ At("ReadBusy")

\* The byte passed to it.
SendByte ==
  IF At("cmd") \/ At("data") THEN Arg
  ELSE IF At("ReadBusy") THEN 113
  ELSE LoopByte(Prog[ip], i, j)

\* A list padded to two bytes.
Payload_padded == << SendByte, 0 >>

\* The list passed to spi_writebyte: [command] (line 138), [data] (line 177).
Payload == << SendByte >>

\* Every variable but the pins, the lock and the position in the send.
Caller == <<rst, busy, Buffers, Frame, ip, rb, polls, i, j, log, truncated,
            Ghosts, ram>>

\* A send_data that leaves the data/command line as the last send set it.
send_dc_command_only ==
  /\ pc = "none" /\ SendPending
  /\ dc' = (IF BySendCommand THEN FALSE ELSE dc)
  /\ pc' = "cs_low"
  /\ tx' = << <<"dc", Lvl(~BySendCommand)>> >>
  /\ UNCHANGED <<cs, lock, Caller>>

\* line 136: digital_write(self.dc, False); line 175: digital_write(self.dc, True)
send_dc ==
  /\ pc = "none" /\ SendPending
  /\ dc' = ~BySendCommand
  /\ pc' = "cs_low"
  /\ tx' = << <<"dc", Lvl(~BySendCommand)>> >>
  /\ UNCHANGED <<cs, lock, Caller>>

\* lines 137, 176: digital_write(self.cs, False)
send_cs_low ==
  /\ pc = "cs_low"
  /\ cs' = FALSE
  /\ pc' = "try_lock"
  /\ tx' = Append(tx, <<"cs", 0>>)
  /\ UNCHANGED <<dc, lock, Caller>>

\* lines 155-156: the loop ends when try_lock() succeeds; until then it spins
spi_try_lock ==
  /\ pc = "try_lock"
  /\ lock = "free"
  /\ lock' = "driver"
  /\ pc' = "configure"
  /\ tx' = Append(tx, <<"lock", 1>>)
  /\ UNCHANGED <<dc, cs, Caller>>

\* line 158: spi.configure(baudrate=4000000, phase=0, polarity=0), which
\* returns or raises
spi_configure ==
  /\ pc = "configure"
  /\ \E ok \in BOOLEAN :
       IF ok
       THEN /\ pc' = "select"
            /\ tx' = Append(tx, <<"configure", <<4000000, 0, 0>> >>)
       ELSE /\ pc' = "finally_raised"
            /\ tx' = Append(tx, <<"raise", 158>>)
  /\ UNCHANGED <<dc, cs, lock, Caller>>

\* line 159: self.cs.value = False
spi_cs_low ==
  /\ pc = "select"
  /\ cs' = FALSE
  /\ pc' = "write"
  /\ tx' = Append(tx, <<"cs", 0>>)
  /\ UNCHANGED <<dc, lock, Caller>>

\* line 160: spi.write(bytearray(data)), which returns or raises
spi_write ==
  /\ pc = "write"
  /\ \E ok \in BOOLEAN :
       IF ok
       THEN /\ pc' = "deselect"
            /\ tx' = tx \o [k \in 1..Len(Payload) |-> <<"write", Payload[k]>>]
       ELSE /\ pc' = "finally_raised"
            /\ tx' = Append(tx, <<"raise", 160>>)
  /\ UNCHANGED <<dc, cs, lock, Caller>>

\* line 161: self.cs.value = True
spi_cs_high ==
  /\ pc = "deselect"
  /\ cs' = TRUE
  /\ pc' = "finally"
  /\ tx' = Append(tx, <<"cs", 1>>)
  /\ UNCHANGED <<dc, lock, Caller>>

\* An unlock that is not in a finally clause: an exception skips it.
spi_unlock_no_finally ==
  /\ pc \in {"finally", "finally_raised"}
  /\ lock' = (IF pc = "finally" THEN "free" ELSE lock)
  /\ pc' = (IF pc = "finally" THEN "cs_high" ELSE "raised")
  /\ tx' = (IF pc = "finally" THEN Append(tx, <<"unlock", 0>>) ELSE tx)
  /\ UNCHANGED <<dc, cs, Caller>>

\* lines 162-163: finally: self.spi.unlock(); then spi_writebyte returns, or
\* the exception goes on to the caller
spi_unlock ==
  /\ pc \in {"finally", "finally_raised"}
  /\ lock' = "free"
  /\ pc' = (IF pc = "finally" THEN "cs_high" ELSE "raised")
  /\ tx' = Append(tx, <<"unlock", 0>>)
  /\ UNCHANGED <<dc, cs, Caller>>

\* lines 139, 178: digital_write(self.cs, True), the last line of the send;
\* taken together with the step of the method that made the send.
send_cs_high ==
  /\ pc = "cs_high"
  /\ pc' = "none"
  /\ tx' = Append(tx, <<"cs", 1>>)
  /\ UNCHANGED <<lock, ram>>

\* No method of the class catches the exception: it leaves the public method
\* that was running, whose frame (position, loop counters, events) is gone;
\* when that method is the init() of the constructor (line 91) no instance
\* exists afterwards.
raise_out ==
  /\ pc = "raised"
  /\ IF initDone
     THEN /\ pc' = "none"
          /\ running' = FALSE
     ELSE /\ pc' = "failed"
          /\ running' = running
  /\ ip' = 1 /\ rb' = "none" /\ polls' = 0 /\ i' = 0 /\ j' = 0
  /\ log' = <<>> /\ truncated' = FALSE
  /\ UNCHANGED <<rst, dc, cs, busy, Buffers, op, args, Ghosts, lock, tx, ram>>

\* Another user of the bus takes the lock when it is free, and gives it back.
other_try_lock ==
  /\ lock = "free"
  /\ lock' = "other"
  /\ UNCHANGED <<rst, dc, cs, busy, Buffers, Frame, ip, rb, polls, i, j, log,
                 truncated, Ghosts, pc, tx, ram>>

other_unlock ==
  /\ lock = "other"
  /\ lock' = "free"
  /\ UNCHANGED <<rst, dc, cs, busy, Buffers, Frame, ip, rb, polls, i, j, log,
                 truncated, Ghosts, pc, tx, ram>>

\* One line of the running method.
StepBus ==
  \/ do_digital_write
  \/ do_delay_ms
  \/ ReadBusy_poll
  \/ ReadBusy_wait
  \/ send_dc
  \/ send_cs_low
  \/ spi_try_lock
  \/ spi_configure
  \/ spi_cs_low
  \/ spi_write
  \/ spi_cs_high
  \/ spi_unlock
  \/ do_send_command /\ send_cs_high
  \/ do_send_data /\ send_cs_high
  \/ ReadBusy_enter /\ send_cs_high
  \/ ReadBusy_resend /\ send_cs_high
  \/ loop_send_data /\ send_cs_high
  \/ raise_out

(***************************************************************************)
(* The controller's RAM addressing, as far as the driver relies on it.     *)
(* ram.cmd is the last command received and ram.n the number of data       *)
(* bytes received after it.  Commands 0x44 / 0x45 load the window (X in    *)
(* byte columns, Y in rows, low byte first), 0x4E / 0x4F load the address  *)
(* counter; each data byte after 0x24 or 0x26 is stored at the counter,    *)
(* which then advances by one along X and, past the window's last column,  *)
(* returns to its first column on the next row, wrapping to the first row  *)
(* after the last.                                                         *)
(***************************************************************************)
RamAdvance(r) ==
  IF r.x < r.xe THEN [r EXCEPT !.x = r.x + 1]
  ELSE IF r.y < r.ye THEN [r EXCEPT !.x = r.xs, !.y = r.y + 1]
  ELSE [r EXCEPT !.x = r.xs, !.y = r.ys]

RamData(r, d) ==
  LET q == [r EXCEPT !.n = r.n + 1]
  IN CASE r.cmd = 68 /\ r.n = 0 -> [q EXCEPT !.xs = d]
       [] r.cmd = 68 /\ r.n = 1 -> [q EXCEPT !.xe = d]
       [] r.cmd = 69 /\ r.n = 0 -> [q EXCEPT !.ys = d]
       [] r.cmd = 69 /\ r.n = 1 -> [q EXCEPT !.ys = r.ys + 256 * d]
       [] r.cmd = 69 /\ r.n = 2 -> [q EXCEPT !.ye = d]
       [] r.cmd = 69 /\ r.n = 3 -> [q EXCEPT !.ye = r.ye + 256 * d]
       [] r.cmd = 78 /\ r.n = 0 -> [q EXCEPT !.x = d]
       [] r.cmd = 79 /\ r.n = 0 -> [q EXCEPT !.y = d]
       [] r.cmd = 79 /\ r.n = 1 -> [q EXCEPT !.y = r.y + 256 * d]
       [] r.cmd \in {36, 38} -> RamAdvance(r)
       [] OTHER -> r

RamCommand(r, c) == [r EXCEPT !.cmd = c, !.n = 0]

\* The controller receives the byte of the send the driver makes in this step.
controller ==
  /\ ram' = (IF BySendCommand THEN RamCommand(ram, SendByte)
             ELSE RamData(ram, SendByte))
  /\ UNCHANGED Wire

\* One primitive call of the running method, with the controller receiving
\* what is sent.
StepRam ==
  \/ do_digital_write
  \/ do_delay_ms
  \/ do_send_command /\ controller
  \/ do_send_data /\ controller
  \/ ReadBusy_enter /\ controller
  \/ ReadBusy_poll
  \/ ReadBusy_resend /\ controller
  \/ ReadBusy_wait
  \/ loop_send_data /\ controller

(***************************************************************************)
(* Calls of the public methods by the application, made while no method    *)
(* is running (after the constructor has returned).                        *)
(***************************************************************************)
Call(o, a) ==
  /\ ~running
  /\ op' = o /\ args' = a
  /\ running' = TRUE
  /\ ip' = 1
  /\ log' = <<>> /\ truncated' = FALSE
  /\ polls' = 0
  /\ configured' = (configured /\ o \notin {"init", "reset", "sleep"})
  /\ UNCHANGED <<rst, dc, cs, busy, Buffers, rb, i, j, initDone, prev,
                 Wire, ram>>

init_call == Call("init", <<>>)
reset_call == Call("reset", <<>>)
ReadBusy_call == Call("ReadBusy", <<>>)
TurnOnDisplay_call == Call("TurnOnDisplay", <<>>)
sleep_call == Call("sleep", <<>>)
display_call == Call("display", <<>>)
Clear_call == \E p \in FillPairs : Call("Clear", p)
SetWindows_call ==
  \E xs \in XSamples, xe \in XSamples, ys \in YSamples, ye \in YSamples :
    Call("SetWindows", <<xs, ys, xe, ye>>)
SetCursor_call ==
  \E x \in XSamples, y \in YSamples : Call("SetCursor", <<x, y>>)

\* The frame buffer library (lines 85-89) draws a picture into the plane
\* buffers.
Draw ==
  /\ ~running
  /\ \E pic \in Pictures :
       /\ pic # <<framebuffer_black_array, framebuffer_red_array>>
       /\ framebuffer_black_array' = pic[1]
       /\ framebuffer_red_array' = pic[2]
  /\ prev' = <<>>
  /\ UNCHANGED <<rst, dc, cs, busy, op, args, running, ip, rb, polls, i, j,
                 log, truncated, initDone, configured, Wire, ram>>

Next ==
  \/ Step
  \/ Return
  \/ init_call
  \/ reset_call
  \/ ReadBusy_call
  \/ TurnOnDisplay_call
  \/ sleep_call
  \/ display_call
  \/ Clear_call
  \/ SetWindows_call
  \/ SetCursor_call
  \/ Draw

Spec == Init /\ [][Next]_vars

\* The loop of ReadBusy: a synchronous program keeps executing it.
PollLoop ==
  \/ ReadBusy_enter /\ UNCHANGED <<Wire, ram>>
  \/ ReadBusy_poll
  \/ ReadBusy_resend /\ UNCHANGED <<Wire, ram>>
  \/ ReadBusy_wait
\* The methods that wait on the busy line, called in any order.
NextBusyWait ==
  \/ Step
  \/ Return
  \/ init_call
  \/ ReadBusy_call
  \/ TurnOnDisplay_call
  \/ display_call
  \/ Clear_call
\* Repeated display() calls, with drawing in between.
NextRedisplay ==
  \/ Step
  \/ Return_observed
  \/ display_call
  \/ Draw
SpecRedisplay == Init /\ [][NextRedisplay]_vars

\* Clear() and display() in any order after the constructor, with the
\* controller's address counter.
NextRam ==
  \/ StepRam
  \/ Return
  \/ display_call
  \/ Clear_call
SpecRam == Init /\ [][NextRam]_vars

\* The driver line by line on a bus it shares with another user.
NextBus ==
  \/ StepBus
  \/ Return
  \/ other_try_lock
  \/ other_unlock
  \/ reset_call
  \/ display_call
SpecBus == Init /\ [][NextBus]_vars

FairSpec == Init /\ [][NextBusyWait]_vars /\ WF_vars(PollLoop)

(***************************************************************************)
(* Expected event sequences, as runs.                                      *)
(***************************************************************************)
RECURSIVE RunsOf(_, _)
RunsOf(acc, raw) ==
  IF raw = <<>> THEN acc ELSE RunsOf(Emit(acc, Head(raw)), Tail(raw))
\* The run-length form of a sequence of events.
Runs(raw) == RunsOf(<<>>, raw)

\* Concatenation of two logs (the runs at the seam merge when equal).
Cat(a, b) ==
  IF a = <<>> THEN b
  ELSE IF b = <<>> THEN a
  ELSE IF a[Len(a)][1] = b[1][1] /\ a[Len(a)][2] = b[1][2]
  THEN SubSeq(a, 1, Len(a) - 1)
         \o << <<b[1][1], b[1][2], a[Len(a)][3] + b[1][3]>> >>
         \o Tail(b)
  ELSE a \o b

EndsWith(l, s) ==
  Len(l) >= Len(s) /\ SubSeq(l, Len(l) - Len(s) + 1, Len(l)) = s

Last(l) == l[Len(l)]

IsBus(run) == run[1] \in {"cmd", "data"}

\* Events of a ReadBusy call that samples the line asserted k times and
\* then de-asserted: the status command before every sample.
RECURSIVE PollRounds(_)
PollRounds(k) ==
  IF k = 0 THEN <<>>
  ELSE << <<"busy", 1>>, <<"cmd", 113>>, <<"delay", 10>> >> \o PollRounds(k - 1)
ReadBusyLog(k) == Runs(<< <<"cmd", 113>> >> \o PollRounds(k) \o << <<"busy", 0>> >>)

ResetLog ==
  Runs(<< <<"rst", 1>>, <<"delay", 50>>, <<"rst", 0>>, <<"delay", 2>>,
          <<"rst", 1>>, <<"delay", 50>> >>)

Returned(o) == op = o /\ ~running

(***************************************************************************)
(* C1.  In every execution of init() the reset sequence (rst high, low,    *)
(* high) runs exactly once and is complete before the first byte goes to   *)
(* the controller; the last thing init() does on the bus is a ReadBusy     *)
(* poll (status command 0x71, then the sample) that reads the busy line    *)
(* de-asserted.                                                            *)
(***************************************************************************)
C1_ResetOnceThenPollLast ==
  op = "init" =>
    /\ \A n \in 1..Len(log) : log[n][1] = "rst" => n <= 5 /\ log[n][3] = 1
    /\ (\E n \in 1..Len(log) : IsBus(log[n]))
         => Len(log) > 6 /\ SubSeq(log, 1, 6) = ResetLog
    /\ ~running => busy = FALSE
    /\ (~running /\ ~truncated) =>
         /\ Last(log) = <<"busy", 0, 1>>
         /\ \/ EndsWith(log, << <<"cmd", 113, 1>>, <<"busy", 0, 1>> >>)
            \/ EndsWith(log, << <<"cmd", 113, 1>>, <<"delay", 10, 1>>,
                                <<"busy", 0, 1>> >>)

C1_Witness ==
  Returned("init") /\ ~truncated /\ initDone /\ Len(log) > 30

(***************************************************************************)
(* C2.  For the 128x250 geometry, init() emits, apart from the status      *)
(* polls, exactly the documented command/data sequence, with a ReadBusy    *)
(* before 0x12, between 0x12 and 0x01 and after the last data byte; the    *)
(* window bytes are those of (0,0)-(width-1,height-1), the cursor bytes    *)
(* those of the origin.                                                    *)
(***************************************************************************)
InitConfigBytes ==
  << <<"cmd", 1>>, <<"data", 249>>, <<"data", 0>>, <<"data", 0>>,
     <<"cmd", 17>>, <<"data", 3>>,
     <<"cmd", 68>>, <<"data", 0>>, <<"data", 15>>,
     <<"cmd", 69>>, <<"data", 0>>, <<"data", 0>>, <<"data", 249>>, <<"data", 0>>,
     <<"cmd", 78>>, <<"data", 0>>,
     <<"cmd", 79>>, <<"data", 0>>, <<"data", 0>>,
     <<"cmd", 60>>, <<"data", 5>>,
     <<"cmd", 24>>, <<"data", 128>>,
     <<"cmd", 33>>, <<"data", 128>>, <<"data", 128>> >>

InitLog(k1, k2, k3) ==
  Cat(ResetLog,
  Cat(ReadBusyLog(k1),
  Cat(Runs(<< <<"cmd", 18>> >>),
  Cat(ReadBusyLog(k2),
  Cat(Runs(InitConfigBytes), ReadBusyLog(k3))))))

C2_InitSequence ==
  /\ width = 128 /\ height = 250
  /\ 15 = (width - 1) \div 8 /\ 249 = (height - 1) % 256 /\ 0 = (height - 1) \div 256
  /\ (Returned("init") /\ ~truncated) =>
       \E k1 \in 0..MaxPolls, k2 \in 0..MaxPolls, k3 \in 0..MaxPolls :
         log = InitLog(k1, k2, k3)

C2_Witness ==
  Returned("init") /\ ~truncated /\ log = InitLog(1, 0, MaxPolls)

(***************************************************************************)
(* C3.  A ReadBusy call that samples the busy line asserted k times and    *)
(* de-asserted on sample k+1 returns right after that sample, having sent  *)
(* the status command 0x71 once before every sample, the first included:   *)
(* k+1 times in all.                                                       *)
(***************************************************************************)
C3_ReadBusyPolls ==
  (rb = "none" /\ ~truncated /\ log # <<>> /\ Last(log)[1] = "busy") =>
    LET expected == ReadBusyLog(polls)
        before == Len(log) - Len(expected)
    IN /\ EndsWith(log, expected)
       /\ op = "ReadBusy" => log = expected
       /\ before > 0 =>
            /\ log[before][1] # "busy"
            /\ log[before] \notin {<<"cmd", 113, 1>>, <<"delay", 10, 1>>}

C3_Witness ==
  /\ rb = "none" /\ ~truncated /\ running
  /\ log # <<>> /\ Last(log)[1] = "busy"
  /\ polls = MaxPolls
  /\ op = "TurnOnDisplay"

(***************************************************************************)
(* C4.  ReadBusy returns only when its latest sample of the busy line was  *)
(* de-asserted.  It has no timeout: an asserted sample always continues    *)
(* the loop, so while the line stays asserted the call (and the method     *)
(* that made it) never returns and the status command is sent again and    *)
(* again; if the line eventually stays de-asserted, ReadBusy returns       *)
(* (weak fairness of the polling loop).                                    *)
(***************************************************************************)
InReadBusy == running /\ rb # "none"

C4_ReturnsOnlyIdle ==
  [][(rb # "none" /\ rb' = "none") => (busy' = FALSE /\ rb = "poll")]_vars

C4_NoTimeout ==
  [][(rb = "poll" /\ busy') => (rb' = "resend" /\ running' /\ ip' = ip)]_vars

C4_StuckNeverReturns ==
  []((InReadBusy /\ [](busy = TRUE)) => []InReadBusy)

C4_StuckKeepsPolling ==
  []((InReadBusy /\ [](busy = TRUE)) => []<>(rb = "wait"))

C4_IdleReturns ==
  (<>[](busy = FALSE)) => [](InReadBusy => <>(rb = "none"))

C4_BusyWait ==
  /\ C4_ReturnsOnlyIdle
  /\ C4_NoTimeout
  /\ C4_StuckNeverReturns
  /\ C4_StuckKeepsPolling
  /\ C4_IdleReturns

\* A ReadBusy still looping after more asserted samples than the log keeps.
C4_Witness ==
  InReadBusy /\ truncated /\ rb = "wait" /\ busy = TRUE /\ op = "Clear"

(***************************************************************************)
(* C5.  As written: a protocol operation called after sleep() without an   *)
(* init() in between sends no byte, and Clear() and display() put bytes    *)
(* on the bus only while the engine is Configured (init completed, no      *)
(* sleep or reset since).  The driver keeps no such state and refuses      *)
(* nothing.                                                                *)
(***************************************************************************)
ProtocolOps == {"Clear", "display", "SetWindows", "SetCursor", "TurnOnDisplay"}
HasBus(l) == \E n \in 1..Len(l) : IsBus(l[n])

C5_GatedByState ==
  (op \in ProtocolOps /\ HasBus(log)) => configured

(***************************************************************************)
(* C5, amended.  The driver has no state gate: the only order the code     *)
(* guarantees is that no protocol operation sends a byte before the        *)
(* constructor's init() has returned.  After that every call is accepted,  *)
(* Configured or not; in particular after sleep() the operations still     *)
(* run and send their bytes, with the reset line left low.                 *)
(***************************************************************************)
C5_OnlyConstructionGates ==
  /\ (op \in ProtocolOps /\ HasBus(log)) => initDone
  /\ (op \in ProtocolOps /\ ~configured /\ ~rst) => initDone

C5_Witness ==
  /\ op = "display" /\ running /\ HasBus(log)
  /\ ~configured /\ rst = FALSE /\ initDone

(***************************************************************************)
(* C6.  display() emits 0x24, the height*byte_stride bytes of the black    *)
(* plane in increasing index order, 0x26, the bytes of the red plane in    *)
(* increasing index order, then TurnOnDisplay (0x20 and the busy poll):    *)
(* 8000 data bytes for the 128x250 geometry, 4000 per plane, and no        *)
(* command other than 0x24 and 0x26 before the trigger.                    *)
(***************************************************************************)
RECURSIVE PlaneLog(_, _, _)
\* Runs of the bytes lo..hi of an image, in index order.
PlaneLog(img, lo, hi) ==
  IF lo > hi THEN <<>>
  ELSE IF lo = hi THEN << <<"data", ByteAt(img, lo), 1>> >>
  ELSE LET mid == (lo + hi) \div 2
       IN Cat(PlaneLog(img, lo, mid), PlaneLog(img, mid + 1, hi))

RECURSIVE CountKind(_, _, _, _)
\* Number of events of a kind in the runs lo..hi of a log.
CountKind(l, kind, lo, hi) ==
  IF lo > hi THEN 0
  ELSE IF lo = hi THEN (IF l[lo][1] = kind THEN l[lo][3] ELSE 0)
  ELSE LET mid == (lo + hi) \div 2
       IN CountKind(l, kind, lo, mid) + CountKind(l, kind, mid + 1, hi)
Count(l, kind) == CountKind(l, kind, 1, Len(l))

DisplayLog(black, red) ==
  Cat(<< <<"cmd", 36, 1>> >>,
  Cat(PlaneLog(black, 0, height * byte_stride - 1),
  Cat(<< <<"cmd", 38, 1>> >>,
  Cat(PlaneLog(red, 0, height * byte_stride - 1),
      << <<"cmd", 32, 1>> >>))))

\* The state in which display() is about to return: the buffers are still
\* those it has sent.
C6_DisplayStream ==
  (op = "display" /\ AtEnd /\ ~truncated) =>
    /\ log = Cat(DisplayLog(framebuffer_black_array, framebuffer_red_array),
                 ReadBusyLog(polls))
    /\ Count(log, "data") = 8000
    /\ Count(PlaneLog(framebuffer_black_array, 0, height * byte_stride - 1),
             "data") = 4000

C6_Witness ==
  /\ op = "display" /\ AtEnd /\ ~truncated
  /\ framebuffer_black_array = 1 /\ framebuffer_red_array = 2
  /\ polls = 1

(***************************************************************************)
(* C7.  Clear(b, r) emits 0x24, height*byte_stride data bytes equal to b,  *)
(* 0x26, height*byte_stride data bytes equal to r, then TurnOnDisplay      *)
(* (0x20 and the busy poll), and nothing in between.                       *)
(***************************************************************************)
ClearLog(b, r) ==
  << <<"cmd", 36, 1>>, <<"data", b, height * byte_stride>>,
     <<"cmd", 38, 1>>, <<"data", r, height * byte_stride>>,
     <<"cmd", 32, 1>> >>

C7_ClearFill ==
  (Returned("Clear") /\ ~truncated) =>
    /\ log = Cat(ClearLog(args[1], args[2]), ReadBusyLog(polls))
    /\ Count(log, "data") = 2 * height * byte_stride

C7_Witness ==
  Returned("Clear") /\ ~truncated /\ args = <<0, 255>> /\ polls = MaxPolls

(***************************************************************************)
(* C8.  For coordinates inside the panel, SetWindows emits 2 commands and  *)
(* 6 data bytes: 0x44, the byte columns holding x_start and x_end, 0x45,   *)
(* y_start low byte, high byte, y_end low byte, high byte; every byte is   *)
(* in 0..255.                                                              *)
(***************************************************************************)
\* The byte column that holds pixel column x.
ByteColumn(x) == CHOOSE c \in 0..255 : 8 * c <= x /\ x <= 8 * c + 7
\* The two bytes of the 16-bit value y, low byte first: y = low + 256 * high.
HighByte(y) == CHOOSE h \in 0..255 : 256 * h <= y /\ y < 256 * (h + 1)
LowHigh(y) == <<y - 256 * HighByte(y), HighByte(y)>>

C8_SetWindowsEncoding ==
  (Returned("SetWindows")
     /\ args[1] \in 0..(width - 1) /\ args[3] \in 0..(width - 1)
     /\ args[2] \in 0..(height - 1) /\ args[4] \in 0..(height - 1)) =>
    /\ log = Runs(<< <<"cmd", 68>>,
                     <<"data", ByteColumn(args[1])>>,
                     <<"data", ByteColumn(args[3])>>,
                     <<"cmd", 69>>,
                     <<"data", LowHigh(args[2])[1]>>,
                     <<"data", LowHigh(args[2])[2]>>,
                     <<"data", LowHigh(args[4])[1]>>,
                     <<"data", LowHigh(args[4])[2]>> >>)
    /\ Count(log, "cmd") = 2 /\ Count(log, "data") = 6
    /\ \A n \in 1..Len(log) : log[n][2] \in 0..255

C8_Witness ==
  Returned("SetWindows") /\ args = <<8, 1, 121, 249>>

(***************************************************************************)
(* C9.  Two display() calls with the plane buffers unchanged in between    *)
(* emit the same sequence: the part from 0x24 through 0x20 is the same     *)
(* whatever the busy line does, and the whole sequences are the same when  *)
(* the busy line shows both calls the same levels.                         *)
(***************************************************************************)
\* The log up to and including the display-update command 0x20.
UpToTrigger(l) ==
  LET at == {n \in 1..Len(l) : l[n][1] = "cmd" /\ l[n][2] = 32}
  IN IF at = {} THEN l
     ELSE SubSeq(l, 1, CHOOSE n \in at : \A m \in at : n <= m)
IsBusySample(run) == run[1] = "busy"
BusyLevels(l) == SelectSeq(l, IsBusySample)

C9_RedisplayIdentical ==
  (op = "display" /\ AtEnd /\ prev # <<>>
     /\ prev[3] = framebuffer_black_array /\ prev[4] = framebuffer_red_array) =>
    /\ UpToTrigger(log) = UpToTrigger(prev[1])
    /\ (~truncated /\ prev[2] = 0 /\ BusyLevels(log) = BusyLevels(prev[1]))
         => log = prev[1]

C9_Witness ==
  /\ op = "display" /\ AtEnd /\ prev # <<>>
  /\ prev[3] = 1 /\ prev[4] = 2
  /\ framebuffer_black_array = 1 /\ framebuffer_red_array = 2
  /\ ~truncated /\ prev[2] = 0
  /\ polls = 1 /\ log = prev[1]

(***************************************************************************)
(* C10.  sleep() emits 0x10 and the data byte 0x01, waits 2000 ms, then    *)
(* drives the reset line low; it sends nothing else and does not sample    *)
(* the busy line.  The reset line is low when sleep() returns and is       *)
(* raised again only by init() or reset().                                 *)
(***************************************************************************)
SleepLog ==
  Runs(<< <<"cmd", 16>>, <<"data", 1>>, <<"delay", 2000>>, <<"rst", 0>> >>)

C10_SleepReturn ==
  Returned("sleep") => (log = SleepLog /\ rst = FALSE /\ Count(log, "busy") = 0)

C10_Sleep ==
  /\ []C10_SleepReturn
  /\ [][(rst = FALSE /\ rst' = TRUE) => (running /\ op \in {"init", "reset"})]_vars
  /\ [][(op = "sleep" /\ running) => busy' = busy]_vars

C10_Witness ==
  Returned("sleep") /\ log = SleepLog /\ rst = FALSE /\ initDone

(***************************************************************************)
(* C11.  For every byte sent to the controller the bus lock is acquired,   *)
(* the bus is configured (4 MHz, phase 0, polarity 0), chip-select is      *)
(* asserted, the byte is written, chip-select is de-asserted and the lock  *)
(* is released, in this order; in particular, once the instance exists,    *)
(* chip-select is never asserted (low) at a moment when the driver does    *)
(* not hold the bus lock, also when send_command / send_data make the      *)
(* write.                                                                  *)
(***************************************************************************)
C11_SelectOnlyUnderLock ==
  (initDone /\ cs = FALSE) => lock = "driver"

(***************************************************************************)
(* C12.  When a byte is written on the bus the data/command line is low    *)
(* if send_command sends it and high if send_data does; the line is set    *)
(* before spi_writebyte starts and no line of spi_writebyte changes it;    *)
(* and every write on the bus is the one write of a send_command or a      *)
(* send_data, of the byte passed to it.                                    *)
(***************************************************************************)
\* spi_writebyte is executing (lines 155-163).
InWrite ==
  pc \in {"try_lock", "configure", "select", "write", "deselect", "finally",
          "finally_raised"}

HasWrite(t) == \E k \in 1..Len(t) : t[k][1] = "write"

C12_LevelAtWrite ==
  /\ InWrite => (dc = ~BySendCommand /\ tx[1] = <<"dc", Lvl(dc)>>)
  /\ pc = "deselect" => tx[Len(tx)] = <<"write", SendByte>>
  /\ HasWrite(tx) => (tx[1][1] = "dc" /\ pc \in {"deselect", "finally", "cs_high", "none"})

C12_DataCommandSelect ==
  /\ []C12_LevelAtWrite
  /\ [][InWrite => dc' = dc]_vars
  /\ [][HasWrite(tx') /\ ~HasWrite(tx) => (pc = "write" /\ SendPending)]_vars

C12_Witness ==
  /\ pc = "deselect" /\ At("stream") /\ i = 3 /\ j = 5
  /\ dc = TRUE /\ tx[Len(tx)] = <<"write", 0>>

(***************************************************************************)
(* C13.  Each bus transaction (one lock acquisition to the matching        *)
(* release, one chip-select low pulse) carries exactly one byte, also in   *)
(* the 4000-byte RAM streams of Clear() and display(); and whenever a      *)
(* public operation returns the driver does not hold the bus lock and      *)
(* chip-select is de-asserted.                                             *)
(***************************************************************************)
CountEvent(t, kind) == Cardinality({k \in 1..Len(t) : t[k][1] = kind})

\* The events of a send whose bus calls all return.
SendEvents(level, byte) ==
  << <<"dc", level>>, <<"cs", 0>>, <<"lock", 1>>,
     <<"configure", <<4000000, 0, 0>> >>, <<"cs", 0>>, <<"write", byte>>,
     <<"cs", 1>>, <<"unlock", 0>> >>

C13_OneByte ==
  /\ CountEvent(tx, "lock") <= 1
  /\ CountEvent(tx, "write") <= 1
  /\ pc = "cs_high" => tx = SendEvents(Lvl(~BySendCommand), SendByte)
  /\ lock = "driver" => InWrite

C13_ReturnsDeselected ==
  /\ C13_OneByte
  /\ AtEnd => (lock # "driver" /\ cs = TRUE)

(***************************************************************************)
(* C13, amended.  Each bus transaction carries exactly one byte, also in   *)
(* the RAM streams; whenever a public operation returns the driver does    *)
(* not hold the bus lock, and chip-select is de-asserted when the          *)
(* operation has sent a byte.  (reset() sends none: it returns with        *)
(* chip-select as it found it, which is low after a send that ended by an  *)
(* exception of spi.configure or spi.write.)                               *)
(***************************************************************************)
C13_OneBytePerTransaction ==
  /\ C13_OneByte
  /\ AtEnd => lock # "driver"
  /\ (AtEnd /\ HasBus(log)) => cs = TRUE

C13_Witness ==
  /\ initDone /\ op = "display" /\ At("stream") /\ i = 1 /\ j = 0
  /\ pc = "cs_high" /\ lock = "free" /\ cs = TRUE
  /\ tx = SendEvents(1, 0)

(***************************************************************************)
(* C14.  The display-update command 0x20 is emitted only by TurnOnDisplay, *)
(* which always follows it with a ReadBusy poll; each Clear() or display() *)
(* call emits 0x20 exactly once, after the last red-plane data byte, and   *)
(* returns only after the busy line has been read de-asserted at a poll    *)
(* made after that 0x20.                                                   *)
(***************************************************************************)
IsTrigger(ev) == ev[1] = "cmd" /\ ev[2] = 32
Triggers(l) == {n \in 1..Len(l) : IsTrigger(l[n])}

\* The 0x20 about to be sent is the first call of a TurnOnDisplay body.
C14_OnlyTurnOnDisplay ==
  (At("cmd") /\ Arg = 32) =>
    /\ op \in {"Clear", "display", "TurnOnDisplay"}
    /\ ip + Len(TurnOnDisplay) - 1 = Len(Prog)
    /\ SubSeq(Prog, ip, Len(Prog)) = TurnOnDisplay
    /\ ip + 1 <= Len(Prog) /\ Prog[ip + 1] = ReadBusy[1]

\* At the return of Clear() / display(): one 0x20, the red plane complete
\* before it, only the poll after it, and the last sample de-asserted.
C14_OnceAfterRed ==
  (AtEnd /\ op \in {"Clear", "display"}) =>
    /\ busy = FALSE
    /\ Cardinality(Triggers(log)) = 1
    /\ LET n == CHOOSE m \in Triggers(log) : TRUE
           red == CHOOSE m \in 1..Len(log) : log[m][1] = "cmd" /\ log[m][2] = 38
       IN /\ log[n][3] = 1
          /\ red < n
          /\ \A m \in (red + 1)..(n - 1) : log[m][1] = "data"
          /\ CountKind(log, "data", red + 1, n - 1) = height * byte_stride
          /\ log[n + 1][1] = "cmd" /\ log[n + 1][2] = 113
          /\ \A m \in (n + 1)..Len(log) : log[m][1] # "data"
          /\ ~truncated =>
               /\ SubSeq(log, n + 1, Len(log)) = ReadBusyLog(polls)
               /\ Last(log) = <<"busy", 0, 1>>

C14_TriggerThenPoll ==
  /\ []C14_OnlyTurnOnDisplay
  /\ []C14_OnceAfterRed
  /\ [][(running /\ running' /\ log # <<>> /\ log' # log /\ IsTrigger(Last(log)))
          => (Last(log') = <<"cmd", 113, 1>> /\ Len(log') = Len(log) + 1)]_vars
  /\ [][(running /\ running' /\ log' # log /\ IsTrigger(Last(log')))
          => (Last(log')[3] = 1 /\ At("cmd") /\ Arg = 32)]_vars

C14_Witness ==
  /\ AtEnd /\ op = "Clear" /\ args = <<165, 0>> /\ ~truncated /\ polls = 1
  /\ Cardinality(Triggers(log)) = 1
  /\ EndsWith(log, Cat(<< <<"cmd", 32, 1>> >>, ReadBusyLog(1)))

(***************************************************************************)
(* C15.  reset() drives the reset line high, waits 50 ms, drives it low,   *)
(* waits 2 ms, drives it high and waits 50 ms, in that order, and does     *)
(* nothing else: it sends no byte and does not sample the busy line.  The  *)
(* line is high when reset() returns, and it is high whenever init() is    *)
(* about to send a byte.                                                   *)
(***************************************************************************)
C15_ResetReturn ==
  (op = "reset" /\ AtEnd) =>
    /\ log = ResetLog
    /\ ~truncated
    /\ ~HasBus(log) /\ Count(log, "busy") = 0
    /\ rst = TRUE

C15_HighWhenInitSends ==
  (op = "init" /\ SendPending) => rst = TRUE

C15_ResetPulse ==
  /\ []C15_ResetReturn
  /\ []C15_HighWhenInitSends
  /\ [][(op = "reset" /\ running) => UNCHANGED <<dc, cs, busy>>]_vars

C15_Witness ==
  /\ op = "reset" /\ AtEnd /\ initDone
  /\ log = << <<"rst", 1, 1>>, <<"delay", 50, 1>>, <<"rst", 0, 1>>,
              <<"delay", 2, 1>>, <<"rst", 1, 1>>, <<"delay", 50, 1>> >>
  /\ rst = TRUE

(***************************************************************************)
(* C16.  Clear(), display(), init() and sleep() leave both plane buffers   *)
(* unchanged: from the call of a method to its return no step changes      *)
(* framebuffer_black_array or framebuffer_red_array, so the buffers after  *)
(* any sequence of these operations are the buffers before it; Clear()     *)
(* blanks the controller RAM only.                                         *)
(***************************************************************************)
C16_BuffersUntouched ==
  [][(running \/ running') => UNCHANGED Buffers]_vars

C16_Witness ==
  /\ op = "Clear" /\ AtEnd /\ args = <<255, 255>>
  /\ framebuffer_black_array = 1 /\ framebuffer_red_array = 2

(***************************************************************************)
(* C17.  width is the smallest multiple of 8 that is >= 122, i.e. 128;     *)
(* byte_stride is 16; both plane buffers have length height * byte_stride  *)
(* = 4000.  Every index i + j * byte_stride that display() reads is in     *)
(* 0..3999, and each plane is read at the indices 0, 1, ..., 3999 in this  *)
(* order, so each index is read exactly once per plane and never out of    *)
(* bounds.                                                                 *)
(***************************************************************************)
C17_Geometry ==
  /\ width % 8 = 0 /\ width >= EPD_WIDTH
  /\ \A w \in EPD_WIDTH..(width - 1) : w % 8 # 0
  /\ width = 128 /\ byte_stride = 16
  /\ byte_stride * 8 = width
  /\ BufLen = height * byte_stride /\ BufLen = 4000

C17_InBounds ==
  At("stream") =>
    /\ i \in 0..(byte_stride - 1) /\ j \in 0..(height - 1)
    /\ BufIndex(i, j) \in 0..(BufLen - 1)

C17_IndexRange ==
  /\ [](C17_Geometry /\ C17_InBounds)
  /\ [][(op = "display" /\ running /\ ~At("stream") /\ running' /\ At("stream")')
          => BufIndex(i', j') = 0]_vars
  /\ [][(At("stream") /\ At("stream")' /\ ip' = ip)
          => BufIndex(i', j') = BufIndex(i, j) + 1]_vars
  /\ [][(At("stream") /\ ip' # ip) => BufIndex(i, j) = BufLen - 1]_vars

C17_Witness ==
  /\ op = "display" /\ At("stream") /\ Arg = 1
  /\ i = 15 /\ j = 249 /\ BufIndex(i, j) = 3999

(***************************************************************************)
(* C18.  With the controller's address counter advancing by one per data   *)
(* byte and wrapping inside the window set by init() (16 byte columns x    *)
(* 250 rows = 4000 bytes): after init(), for any sequence of Clear() and   *)
(* display() calls, the counter is at the origin (0, 0) every time a       *)
(* RAM-write command 0x24 or 0x26 is emitted, although Clear() and         *)
(* display() never send SetWindows / SetCursor again, because each burst   *)
(* is exactly one full window of bytes.                                    *)
(***************************************************************************)
AtOrigin == ram.x = 0 /\ ram.y = 0

InitWindow ==
  /\ ram.xs = 0 /\ ram.xe = 15
  /\ ram.ys = 0 /\ ram.ye = 249
  /\ (ram.xe - ram.xs + 1) * (ram.ye - ram.ys + 1) = 4000

C18_OriginAtRamWrite ==
  /\ (initDone /\ At("cmd") /\ Arg \in {36, 38}) => (AtOrigin /\ InitWindow)
  /\ (AtEnd /\ op \in {"Clear", "display"}) => (AtOrigin /\ InitWindow)
  /\ (initDone /\ (At("fill") \/ At("stream")))
       => (ram.cmd \in {36, 38} /\ ram.x = i /\ ram.y = j)

C18_Witness ==
  /\ initDone /\ op = "display" /\ At("cmd") /\ Arg = 38
  /\ ram.cmd = 36 /\ AtOrigin /\ InitWindow
  /\ log = << <<"cmd", 36, 1>>, <<"data", 0, 4000>> >>

(***************************************************************************)
(* C19.  spi_writebyte releases the bus lock on every exit path once it    *)
(* has acquired it, also when spi.configure or spi.write raises: the       *)
(* driver never holds the lock after spi_writebyte has returned or         *)
(* raised, so another user of the bus that calls try_lock is not locked    *)
(* out by a failed write.                                                  *)
(***************************************************************************)
\* spi_writebyte has raised: the exception is on its way out, or has left.
Raised(t) == \E k \in 1..Len(t) : t[k][1] = "raise"

C19_FreeOutsideWrite ==
  /\ pc \in {"none", "cs_low", "cs_high", "raised", "failed"} => lock # "driver"
  /\ (pc \in {"raised", "failed"} \/ (pc = "none" /\ Raised(tx)))
       => (Raised(tx) /\ tx[Len(tx)] = <<"unlock", 0>>)

C19_LockReleasedOnEveryExit ==
  /\ []C19_FreeOutsideWrite
  /\ [][(lock = "driver" /\ lock' # "driver")
          => (pc \in {"finally", "finally_raised"} /\ lock' = "free")]_vars
  /\ [][(lock = "driver" /\ pc' \notin {"configure", "select", "write", "deselect",
                                        "finally", "finally_raised"})
          => lock' = "free"]_vars

C19_Witness ==
  /\ pc = "raised" /\ lock = "other"
  /\ tx[Len(tx) - 1] = <<"raise", 160>>
  /\ op = "display" /\ At("stream")

====
